---- MODULE Spec2Model ----
(***************************************************************************)
(* A model of pdf2md.py: the PDF -> Markdown pipeline of class PDF2MD and  *)
(* of main().                                                              *)
(*                                                                         *)
(* Strings are sequences of chunks.  A chunk is either one character (a    *)
(* decimal digit, a letter of a text line) or one literal piece of an      *)
(* f-string template of the source, kept whole because no other string of  *)
(* the program overlaps it in part ("<!-- IMAGE_PLACEHOLDER_", " -->",     *)
(* "https://i.gyazo.com/", ...).  Integers are formatted digit by digit,   *)
(* as the f-strings do, so that the tokens of indices 1 and 10 share a     *)
(* prefix exactly as they do in the program.                               *)
(***************************************************************************)
EXTENDS Integers, Sequences, FiniteSets, TLC

\* ------------------------------------------------------------------ bounds
\* pages of a PDF
MaxPages == 2
\* text lines and embedded images of a PDF, all pages together
MaxElems == 3
\* height of a page, in coordinate units
PageHeight == 2
\* length of image_urls in the substitution specification
MaxUrls == 11
\* entries of image_urls that are URLs, in the substitution specification
MaxValid == 2
\* pieces a completion text is made of, in the substitution specification
MaxPieces == 2

\* Python's None, where a string may stand
None == <<"None">>

\* ----------------------------------------------------------------- strings
Digit(d) == <<"0", "1", "2", "3", "4", "5", "6", "7", "8", "9">>[d + 1]

\* f"{n}" for a natural number n
RECURSIVE Str(_)
Str(n) == IF n < 10 THEN <<Digit(n)>> ELSE Str(n \div 10) \o <<Digit(n % 10)>>

\* (variant for sensitivity checks: the token without its closing " -->")
PlaceholderNoSuffix(i) == <<"<!-- IMAGE_PLACEHOLDER_">> \o Str(i)

\* f"<!-- IMAGE_PLACEHOLDER_{i} -->"
Placeholder(i) == <<"<!-- IMAGE_PLACEHOLDER_">> \o Str(i) \o <<" -->">>

\* the URL the image host returns for the k-th upload (0-based)
Url(k) == <<"https://i.gyazo.com/">> \o Str(k) \o <<".png">>

\* old occurs in s at position p
OccursAt(s, old, p) ==
    /\ p + Len(old) - 1 <= Len(s)
    /\ SubSeq(s, p, p + Len(old) - 1) = old

\* s.replace(old, new), old not empty: every occurrence, left to right,
\* occurrences not overlapping
RECURSIVE Replace(_, _, _)
Replace(s, old, new) ==
    IF Len(s) < Len(old) THEN s
    ELSE IF OccursAt(s, old, 1)
         THEN new \o Replace(SubSeq(s, Len(old) + 1, Len(s)), old, new)
         ELSE <<s[1]>> \o Replace(Tail(s), old, new)

\* Python truthiness of an optional string
Truthy(v) == v # None /\ v # <<>>

\* one iteration of the substitution loop, for the 0-based index i:
\* if url: result = result.replace(f"<!-- IMAGE_PLACEHOLDER_{i} -->", url)
SubstituteOne(result, image_urls, i) ==
    IF Truthy(image_urls[i + 1])
    THEN Replace(result, Placeholder(i), image_urls[i + 1])
    ELSE result

\* the substitution loop: for i, url in enumerate(image_urls)
RECURSIVE SubstituteFrom(_, _, _)
SubstituteFrom(result, image_urls, i) ==
    IF i >= Len(image_urls) THEN result
    ELSE SubstituteFrom(SubstituteOne(result, image_urls, i), image_urls, i + 1)

Substitute(result, image_urls) == SubstituteFrom(result, image_urls, 0)

Contains(s, t) == \E p \in 1..Len(s) : OccursAt(s, t, p)

\* a string holds the placeholder token of some index
RECURSIVE HasPlaceholder(_)
HasPlaceholder(s) ==
    /\ s # <<>>
    /\ \/ /\ s[1] = "<!-- IMAGE_PLACEHOLDER_"
          /\ \E n \in 2..Len(s) :
                /\ n > 2
                /\ s[n] = " -->"
                /\ \A m \in 2..(n - 1) : s[m] \in {Digit(d) : d \in 0..9}
       \/ HasPlaceholder(Tail(s))

\* ------------------------------------------------------------ the PDF file
\* what pdfplumber hands to the program.  A text line carries `top`, the
\* distance of its top edge from the top of the page.  An image dict
\* carries both conventions: top/bottom, measured from the top of the page,
\* and y0/y1, the distances of its bottom and top edge from the BOTTOM of
\* the page (PDF coordinates): y0 = height - bottom, y1 = height - top.
\* crop_ok says whether page.crop(bbox).to_image() succeeds for it.
\* Every line and image is one unit high.  Horizontal coordinates play no
\* part in the pipeline and are left out.
Lines ==
    { [text |-> <<"a">>, top |-> t, bottom |-> t + 1] :
        t \in 0..(PageHeight - 1) }

PdfImages ==
    { [top |-> t, bottom |-> t + 1, y0 |-> PageHeight - (t + 1),
       y1 |-> PageHeight - t, crop_ok |-> ok] :
        t \in 0..(PageHeight - 1), ok \in BOOLEAN }

SeqsUpTo(S, n) == UNION { [1..k -> S] : k \in 0..n }

\* the elements extracted so far
RECURSIVE Extracted(_)
Extracted(pages) ==
    IF pages = <<>> THEN 0
    ELSE Len(pages[1].elements) + Extracted(Tail(pages))

\* the pages a PDF can go on with when `used` elements were extracted
PdfPages(used) ==
    { p \in [lines : SeqsUpTo(Lines, MaxElems - used),
             images : SeqsUpTo(PdfImages, MaxElems - used)] :
        Len(p.lines) + Len(p.images) <= MaxElems - used }

\* ------------------------------------------ extract_pdf_content_with_layout
TextElement(line) ==
    [type |-> "text", content |-> line.text,
     bbox |-> <<line.top, line.bottom>>, y_pos |-> line.top, page |-> 0]

\* bbox = (img['x0'], img['y0'], img['x1'], img['y1']); 'y_pos': bbox[1].
\* The keys 'image' (the pixels) and 'index' are written and never read by
\* anything that decides the output; they are left out, and an image
\* element is known by its page and its bbox.
ImageElement(img, page_num) ==
    [type |-> "image", content |-> <<>>,
     bbox |-> <<img.y0, img.y1>>, y_pos |-> img.y0, page |-> page_num]

RECURSIVE TextElements(_)
TextElements(lines) ==
    IF lines = <<>> THEN <<>>
    ELSE <<TextElement(lines[1])>> \o TextElements(Tail(lines))

\* the images of page.images from position img_idx (0-based) on; an image
\* whose crop raises is skipped
RECURSIVE ImageElements(_, _, _)
ImageElements(imgs, page_num, img_idx) ==
    IF img_idx >= Len(imgs) THEN <<>>
    ELSE (IF imgs[img_idx + 1].crop_ok
          THEN <<ImageElement(imgs[img_idx + 1], page_num)>>
          ELSE <<>>)
         \o ImageElements(imgs, page_num, img_idx + 1)

\* e put behind the last element of the sorted s whose key is not greater
InsertByYPos(s, e) ==
    LET n == Cardinality({k \in 1..Len(s) : s[k].y_pos <= e.y_pos})
    IN  SubSeq(s, 1, n) \o <<e>> \o SubSeq(s, n + 1, Len(s))

\* page_elements.sort(key=lambda x: x['y_pos']): a stable sort
RECURSIVE SortByYPos(_)
SortByYPos(s) ==
    IF s = <<>> THEN <<>>
    ELSE InsertByYPos(SortByYPos(SubSeq(s, 1, Len(s) - 1)), s[Len(s)])

PageElements(page, page_num) ==
    SortByYPos(TextElements(page.lines)
               \o ImageElements(page.images, page_num, 0))

PageData(page, page_num) ==
    [page_num |-> page_num, elements |-> PageElements(page, page_num)]

\* ------------------------------------------------------------------ convert
\* the image elements of a page's element list, in order
RECURSIVE ImagesOf(_)
ImagesOf(elements) ==
    IF elements = <<>> THEN <<>>
    ELSE (IF elements[1].type = "image" THEN <<elements[1]>> ELSE <<>>)
         \o ImagesOf(Tail(elements))

\* images = [...]: all image elements, page by page
RECURSIVE CollectImages(_)
CollectImages(pages) ==
    IF pages = <<>> THEN <<>>
    ELSE ImagesOf(pages[1].elements) \o CollectImages(Tail(pages))

\* ------------------------------------------------- build_structured_content
PageHeader(page_num) == <<"--- Page ">> \o Str(page_num) \o <<" ---\n">>

ImageBlock(image_counter, page_num) ==
    <<"[image ">> \o Str(image_counter + 1) \o <<": Page ">> \o Str(page_num)
    \o <<"]\n![Image](">> \o Placeholder(image_counter) \o <<")\n">>

FailedBlock(page_num) ==
    <<"[image: Page ">> \o Str(page_num) \o <<" - upload failed]\n">>

\* the body of `for element in page_data['elements']`.  acc holds the two
\* locals structured_content and image_counter and, for the properties, the
\* text appended for each image element so far (emitted)
\* (variant for sensitivity checks: a placeholder for every image element)
BuildElementAlwaysPlaceholder(acc, element, page_num, image_urls) ==
    IF element.type = "text"
    THEN [acc EXCEPT !.structured_content = @ \o element.content \o <<"\n">>]
    ELSE [structured_content |->
             acc.structured_content
             \o ImageBlock(acc.image_counter, page_num),
          image_counter |-> acc.image_counter + 1,
          emitted |->
             Append(acc.emitted, ImageBlock(acc.image_counter, page_num))]

BuildElement(acc, element, page_num, image_urls) ==
    IF element.type = "text"
    THEN [acc EXCEPT !.structured_content = @ \o element.content \o <<"\n">>]
    ELSE IF /\ acc.image_counter < Len(image_urls)
            /\ Truthy(image_urls[acc.image_counter + 1])
         THEN [structured_content |->
                  acc.structured_content
                  \o ImageBlock(acc.image_counter, page_num),
               image_counter |-> acc.image_counter + 1,
               emitted |->
                  Append(acc.emitted, ImageBlock(acc.image_counter, page_num))]
         ELSE [structured_content |->
                  acc.structured_content \o FailedBlock(page_num),
               image_counter |-> acc.image_counter,
               emitted |-> Append(acc.emitted, FailedBlock(page_num))]

RECURSIVE BuildElements(_, _, _, _)
BuildElements(acc, elements, page_num, image_urls) ==
    IF elements = <<>> THEN acc
    ELSE BuildElements(BuildElement(acc, elements[1], page_num, image_urls),
                       Tail(elements), page_num, image_urls)

RECURSIVE BuildPages(_, _, _)
BuildPages(acc, pages, image_urls) ==
    IF pages = <<>> THEN acc
    ELSE BuildPages(
            BuildElements(
                [acc EXCEPT !.structured_content =
                                @ \o PageHeader(pages[1].page_num)],
                pages[1].elements, pages[1].page_num, image_urls),
            Tail(pages), image_urls)

\* structured_content = ""; image_counter = 0
NotBuilt ==
    [structured_content |-> <<>>, image_counter |-> 0, emitted |-> <<>>]

build_structured_content(pages, image_urls) ==
    BuildPages(NotBuilt, pages, image_urls)

\* ---------------------------------------------------- summarize_with_openai
\* valid_image_count = len([url for url in image_urls if url])
valid_image_count(image_urls) ==
    Cardinality({k \in 1..Len(image_urls) : Truthy(image_urls[k])})

\* the two instructions: "forbid" forbids every mention of images, "place"
\* asks to place the valid_image_count images
\* (variant for sensitivity checks: the instruction never forbids)
ImageInstructionAlwaysPlace(image_urls) == "place"

ImageInstruction(image_urls) ==
    IF valid_image_count(image_urls) = 0 THEN "forbid" ELSE "place"

BuildPrompt(structured_content, image_urls) ==
    [image_instruction |-> ImageInstruction(image_urls),
     valid_image_count |-> valid_image_count(image_urls),
     content |-> structured_content]

NoPrompt ==
    [image_instruction |-> "", valid_image_count |-> 0, content |-> <<>>]

\* texts the completion endpoint may answer with: the content echoed with
\* its placeholders intact, a summary without images, a summary with the
\* placeholder of an index no image has
Responses(structured_content, image_urls) ==
    { structured_content,
      <<"summary">>,
      <<"summary">> \o Placeholder(Len(image_urls)) }

\* ---------------------------------------------------------- upload_to_gyazo
\* what one call does, by what happens to it: image.save raises (outside
\* the try), requests.post raises, raise_for_status raises on a non-2xx
\* status, the body is no JSON object with a 'url', the 'url' is the empty
\* string, or the upload succeeds as the k-th (0-based)
UploadOutcomes ==
    {"encode_error", "network_error", "http_error", "malformed",
     "empty_url", "ok"}

\* returns [raised, value, message]: the value returned, or the message of
\* the exception that leaves the call
\* (variant for sensitivity checks: no try/except around the request)
upload_to_gyazo_unguarded(outcome, k) ==
    CASE outcome = "encode_error" ->
            [raised |-> TRUE, value |-> None, message |-> "cannot save image"]
      [] outcome = "ok" ->
            [raised |-> FALSE, value |-> Url(k), message |-> ""]
      [] outcome = "empty_url" ->
            [raised |-> FALSE, value |-> <<>>, message |-> ""]
      [] OTHER ->
            [raised |-> TRUE, value |-> None, message |-> "upload failed"]

upload_to_gyazo(outcome, k) ==
    CASE outcome = "encode_error" ->
            [raised |-> TRUE, value |-> None, message |-> "cannot save image"]
      [] outcome = "ok" ->
            [raised |-> FALSE, value |-> Url(k), message |-> ""]
      [] outcome = "empty_url" ->
            [raised |-> FALSE, value |-> <<>>, message |-> ""]
      [] OTHER ->
            [raised |-> FALSE, value |-> None, message |-> ""]

\* if url: image_urls.append(url) else: image_urls.append(None)
\* (variant for sensitivity checks: a failed upload is not recorded)
RecordUrlDropFailed(image_urls, url) ==
    IF Truthy(url) THEN Append(image_urls, url) ELSE image_urls

RecordUrl(image_urls, url) ==
    IF Truthy(url) THEN Append(image_urls, url) ELSE Append(image_urls, None)

\* ----------------------------------------------------------------- __init__
\* the message of the ValueError the constructor raises, or ""
\* (variant for sensitivity checks: the LLM key is not checked)
MissingCredentialGyazoOnly(gyazo, openai) ==
    IF ~Truthy(gyazo) THEN "GYAZO_TOKEN environment variable is required"
    ELSE ""

MissingCredential(gyazo, openai) ==
    IF ~Truthy(gyazo) THEN "GYAZO_TOKEN environment variable is required"
    ELSE IF ~Truthy(openai)
         THEN "OPENAI_API_KEY environment variable is required"
         ELSE ""

\* -------------------------------------------------------------------- state
VARIABLES
    pc,                 \* where main() stands
    gyazo_token,        \* os.getenv('GYAZO_TOKEN')
    openai_api_key,     \* os.getenv('OPENAI_API_KEY')
    input_exists,       \* os.path.exists(args.input)
    pages_data,         \* extract_pdf_content_with_layout's pages_data
    images,             \* convert's images
    image_urls,         \* convert's image_urls
    upload_calls,       \* the calls of upload_to_gyazo, in order
    built,              \* build_structured_content's locals at its return
    prompt,             \* summarize_with_openai's prompt
    response,           \* response.choices[0].message.content
    markdown_content,   \* what summarize_with_openai returned
    output_file,        \* the content of args.output
    exit_status,        \* the exit status of the process, -1 while it runs
    error,              \* the message main() printed before sys.exit(1), or ""
    trace,              \* the accesses to files, environment and network
    sub_urls,           \* substitution alone: image_urls
    sub_text,           \* substitution alone: the completion text
    sub_result,         \* substitution alone: result
    sub_todo            \* substitution alone: the indices still to process

pipeline_vars ==
    <<pc, gyazo_token, openai_api_key, input_exists, pages_data, images,
      image_urls, upload_calls, built, prompt, response, markdown_content,
      output_file, exit_status, error, trace>>

sub_vars == <<sub_urls, sub_text, sub_result, sub_todo>>

vars ==
    <<pc, gyazo_token, openai_api_key, input_exists, pages_data, images,
      image_urls, upload_calls, built, prompt, response, markdown_content,
      output_file, exit_status, error, trace,
      sub_urls, sub_text, sub_result, sub_todo>>

EnvValues == {None, <<>>, <<"secret">>}

\* the output file before the run holds an earlier result
OldOutput == <<"old">>

PipelineInit ==
    /\ pc = "main"
    /\ gyazo_token \in EnvValues
    /\ openai_api_key \in EnvValues
    /\ input_exists \in BOOLEAN
    /\ pages_data = <<>>
    /\ images = <<>>
    /\ image_urls = <<>>
    /\ upload_calls = <<>>
    /\ built = NotBuilt
    /\ prompt = NoPrompt
    /\ response = None
    /\ markdown_content = None
    /\ output_file = OldOutput
    /\ exit_status = -1
    /\ error = ""
    /\ trace = <<>>

SubIdle ==
    /\ sub_urls = <<>>
    /\ sub_text = <<>>
    /\ sub_result = <<>>
    /\ sub_todo = {}

Init == PipelineInit /\ SubIdle

\* sys.exit(1) after print(message)
Exit1(message) ==
    /\ pc' = "exit"
    /\ exit_status' = 1
    /\ error' = message

\* main(): if not os.path.exists(args.input): ... sys.exit(1)
CheckInput ==
    /\ pc = "main"
    /\ trace' = Append(trace, "exists_input")
    /\ IF input_exists
       THEN /\ pc' = "construct"
            /\ UNCHANGED <<exit_status, error>>
       ELSE Exit1("input file not found")
    /\ UNCHANGED <<gyazo_token, openai_api_key, input_exists, pages_data,
                   images, image_urls, upload_calls, built, prompt, response,
                   markdown_content, output_file, sub_vars>>

\* main(): converter = PDF2MD(), a ValueError caught by `except Exception`
Construct ==
    /\ pc = "construct"
    /\ trace' = Append(trace, "getenv")
    /\ IF MissingCredential(gyazo_token, openai_api_key) = ""
       THEN /\ pc' = "extract"
            /\ UNCHANGED <<exit_status, error>>
       ELSE Exit1(MissingCredential(gyazo_token, openai_api_key))
    /\ UNCHANGED <<gyazo_token, openai_api_key, input_exists, pages_data,
                   images, image_urls, upload_calls, built, prompt, response,
                   markdown_content, output_file, sub_vars>>

\* extract_pdf_content_with_layout: one iteration of `for page_num, page`
ExtractPage ==
    /\ pc = "extract"
    /\ Len(pages_data) < MaxPages
    /\ \E page \in PdfPages(Extracted(pages_data)) :
          pages_data' = Append(pages_data, PageData(page, Len(pages_data) + 1))
    /\ trace' = IF pages_data = <<>> THEN Append(trace, "open_input")
                ELSE trace
    /\ UNCHANGED <<pc, gyazo_token, openai_api_key, input_exists, images,
                   image_urls, upload_calls, built, prompt, response,
                   markdown_content, output_file, exit_status, error,
                   sub_vars>>

\* pdfplumber raises: the file cannot be opened, or a page cannot be parsed
ExtractFail ==
    /\ pc = "extract"
    /\ trace' = IF pages_data = <<>> THEN Append(trace, "open_input")
                ELSE trace
    /\ Exit1("extraction error")
    /\ UNCHANGED <<gyazo_token, openai_api_key, input_exists, pages_data,
                   images, image_urls, upload_calls, built, prompt, response,
                   markdown_content, output_file, sub_vars>>

\* the last page was read: return pages_data; convert collects the images
ExtractDone ==
    /\ pc = "extract"
    /\ trace' = IF pages_data = <<>> THEN Append(trace, "open_input")
                ELSE trace
    /\ images' = CollectImages(pages_data)
    /\ pc' = IF CollectImages(pages_data) = <<>> THEN "summarize" ELSE "upload"
    /\ UNCHANGED <<gyazo_token, openai_api_key, input_exists, pages_data,
                   image_urls, upload_calls, built, prompt, response,
                   markdown_content, output_file, exit_status, error,
                   sub_vars>>

\* convert: one iteration of `for img_data in images`
Upload ==
    /\ pc = "upload"
    /\ Len(upload_calls) < Len(images)
    /\ \E outcome \in UploadOutcomes :
          LET img == images[Len(upload_calls) + 1]
              r == upload_to_gyazo(outcome, Len(upload_calls))
          IN  /\ upload_calls' =
                    Append(upload_calls,
                           [image |-> img, raised |-> r.raised,
                            returned |-> r.value])
              /\ IF r.raised
                 THEN /\ Exit1(r.message)
                      /\ UNCHANGED image_urls
                 ELSE /\ image_urls' = RecordUrl(image_urls, r.value)
                      /\ pc' = IF Len(upload_calls) + 1 >= Len(images)
                               THEN "summarize" ELSE "upload"
                      /\ UNCHANGED <<exit_status, error>>
    /\ trace' = Append(trace, "upload")
    /\ UNCHANGED <<gyazo_token, openai_api_key, input_exists, pages_data,
                   images, built, prompt, response, markdown_content,
                   output_file, sub_vars>>

\* summarize_with_openai with the completion request answered, and the
\* rest of convert and main, which nothing can interrupt: the result is
\* written to args.output and the process exits with status 0
SummarizeAndWrite ==
    /\ pc = "summarize"
    /\ LET b == build_structured_content(pages_data, image_urls)
       IN  /\ built' = b
           /\ prompt' = BuildPrompt(b.structured_content, image_urls)
           /\ \E r \in Responses(b.structured_content, image_urls) :
                 /\ response' = r
                 /\ markdown_content' = Substitute(r, image_urls)
                 /\ output_file' = Substitute(r, image_urls)
    /\ trace' = Append(trace, "completion") \o <<"write_output">>
    /\ pc' = "exit"
    /\ exit_status' = 0
    /\ UNCHANGED <<gyazo_token, openai_api_key, input_exists, pages_data,
                   images, image_urls, upload_calls, error, sub_vars>>

\* summarize_with_openai, the completion request raising
\* (variant for sensitivity checks: the error text is written as the result)
SummarizeFailWritesError ==
    /\ pc = "summarize"
    /\ LET b == build_structured_content(pages_data, image_urls)
       IN  /\ built' = b
           /\ prompt' = BuildPrompt(b.structured_content, image_urls)
    /\ trace' = Append(trace, "completion") \o <<"write_output">>
    /\ output_file' = <<"completion error">>
    /\ Exit1("completion error")
    /\ UNCHANGED <<gyazo_token, openai_api_key, input_exists, pages_data,
                   images, image_urls, upload_calls, response,
                   markdown_content, sub_vars>>

SummarizeFail ==
    /\ pc = "summarize"
    /\ LET b == build_structured_content(pages_data, image_urls)
       IN  /\ built' = b
           /\ prompt' = BuildPrompt(b.structured_content, image_urls)
    /\ trace' = Append(trace, "completion")
    /\ Exit1("completion error")
    /\ UNCHANGED <<gyazo_token, openai_api_key, input_exists, pages_data,
                   images, image_urls, upload_calls, response,
                   markdown_content, output_file, sub_vars>>

Next ==
    \/ CheckInput
    \/ Construct
    \/ ExtractPage
    \/ ExtractFail
    \/ ExtractDone
    \/ Upload
    \/ SummarizeAndWrite
    \/ SummarizeFail

Spec == Init /\ [][Next]_vars

\* ------------------------------------------- the substitution loop, alone
\* the lists image_urls of every length up to MaxUrls with at most MaxValid URLs;
\* the entry of index i, when a URL, is the URL of the i-th upload
ValidSets(n) == { V \in SUBSET (0..(n - 1)) : Cardinality(V) <= MaxValid }

UrlLists ==
    UNION { { [k \in 1..n |-> IF (k - 1) \in V THEN Url(k - 1) ELSE None] :
                V \in ValidSets(n) } :
            n \in 0..MaxUrls }

ValidIndices(urls) ==
    { i \in 0..(Len(urls) - 1) : Truthy(urls[i + 1]) }

\* what a completion text is made of: the placeholders of the indices that
\* have a URL, other text, and the opening of a placeholder left dangling
Pieces(urls) ==
    { Placeholder(i) : i \in ValidIndices(urls) }
    \cup { <<"x">>, <<"<!-- IMAGE_PLACEHOLDER_">> }

RECURSIVE Flatten(_)
Flatten(ss) == IF ss = <<>> THEN <<>> ELSE ss[1] \o Flatten(Tail(ss))

Texts(urls) ==
    { Flatten(ps) : ps \in SeqsUpTo(Pieces(urls), MaxPieces) }

PipelineIdle ==
    /\ pc = "idle"
    /\ gyazo_token = None
    /\ openai_api_key = None
    /\ input_exists = FALSE
    /\ pages_data = <<>>
    /\ images = <<>>
    /\ image_urls = <<>>
    /\ upload_calls = <<>>
    /\ built = NotBuilt
    /\ prompt = NoPrompt
    /\ response = None
    /\ markdown_content = None
    /\ output_file = OldOutput
    /\ exit_status = -1
    /\ error = ""
    /\ trace = <<>>

SubInit ==
    /\ PipelineIdle
    /\ sub_urls \in UrlLists
    /\ sub_text \in Texts(sub_urls)
    /\ sub_result = sub_text
    /\ sub_todo = ValidIndices(sub_urls)

\* one iteration of `for i, url in enumerate(image_urls)` that replaces
\* (url is not None), for the indices taken in any order; the program takes
\* them in increasing order
SubStep ==
    /\ \E i \in sub_todo :
          /\ sub_result' = SubstituteOne(sub_result, sub_urls, i)
          /\ sub_todo' = sub_todo \ {i}
    /\ UNCHANGED <<sub_urls, sub_text, pipeline_vars>>

SubNext == SubStep

SpecSub == SubInit /\ [][SubNext]_vars

\* =============================================================== properties
InTrace(e) == \E k \in 1..Len(trace) : trace[k] = e

\* build_structured_content has returned
Serialized == InTrace("completion")

\* the completion request was answered
Summarized == pc = "exit" /\ exit_status = 0

\* the output file is as it was before the run
OutputUntouched == output_file = OldOutput

\* the distance of an element's top edge from the top of the page: a text
\* line's bbox holds it; an image's bbox holds (y0, y1), and y1 is the
\* distance of the top edge from the bottom of the page
TopEdge(e) == IF e.type = "text" THEN e.bbox[1] ELSE PageHeight - e.bbox[2]

\* C1: after build_structured_content has serialized all pages, its image
\* counter equals the number of image elements of the pages: the counter
\* advanced once per image element, whether or not its upload succeeded.
C1_CounterCountsEveryImage ==
    Serialized => built.image_counter = Len(CollectImages(pages_data))

\* C2: for the k-th image element of the flattened list (k from 0), the
\* text serialized for it holds the placeholder of index k if and only if
\* upload result k is a URL, and is the upload-failed marker if and only if
\* upload result k is absent.
C2_PlaceholderIffUrl ==
    Serialized =>
        /\ Len(built.emitted) = Len(images)
        /\ \A k \in 1..Len(images) :
              /\ Contains(built.emitted[k], Placeholder(k - 1))
                    <=> (k <= Len(image_urls) /\ Truthy(image_urls[k]))
              /\ built.emitted[k] = FailedBlock(images[k].page)
                    <=> ~(k <= Len(image_urls) /\ Truthy(image_urls[k]))

\* C3: the serialized content holds the placeholder of an index only if
\* that index has a URL; and when the completion answers with the content
\* itself, placeholders intact, the final Markdown holds no placeholder
\* token and holds the URL of every index whose placeholder was emitted.
C3_NoDanglingPlaceholder ==
    /\ Serialized =>
          \A k \in 0..(Len(images) + 1) :
              Contains(built.structured_content, Placeholder(k))
                  => (k < Len(image_urls) /\ image_urls[k + 1] # None)
    /\ (Summarized /\ response = built.structured_content) =>
          /\ ~HasPlaceholder(markdown_content)
          /\ \A k \in 0..(Len(images) + 1) :
                Contains(built.structured_content, Placeholder(k))
                    => Contains(markdown_content,
                                <<"]\n![Image](">> \o image_urls[k + 1]
                                \o <<")\n">>)

\* C3 witness: a run has ended whose completion echoed a content that held
\* a placeholder, with another image's upload failed.
C3_Witness ==
    /\ pc = "exit"
    /\ exit_status = 0
    /\ response = built.structured_content
    /\ HasPlaceholder(built.structured_content)
    /\ \E k \in 1..Len(image_urls) : image_urls[k] = None

\* C4: once the PDF is extracted, failed uploads never end the run: unless
\* saving an image as PNG raised, a run that has ended did send the
\* completion request, and unless that request failed it wrote the output
\* file as its last step and exited with status 0.
C4_UploadFailureNotFatal ==
    /\ pc = "upload" => exit_status = -1
    /\ (pc = "exit" /\ InTrace("open_input")
        /\ error \notin {"extraction error", "cannot save image"}) =>
          /\ InTrace("completion")
          /\ error # "completion error" =>
                /\ exit_status = 0
                /\ trace[Len(trace)] = "write_output"
                /\ output_file = markdown_content

\* C4 witness: a run exited with status 0 with one upload failed and
\* another succeeded.
C4_Witness ==
    /\ pc = "exit"
    /\ exit_status = 0
    /\ output_file = markdown_content
    /\ \E k \in 1..Len(image_urls) : image_urls[k] = None
    /\ \E k \in 1..Len(image_urls) : image_urls[k] # None

\* C5: when no upload result is a URL (no image, or every upload failed),
\* the prompt carries the instruction that forbids image references and
\* the serialized content holds no placeholder token; when some upload
\* result is a URL, the prompt does not carry that instruction.
C5_NoImagesInstruction ==
    Serialized =>
        IF \A k \in 1..Len(image_urls) : image_urls[k] = None
        THEN /\ prompt.image_instruction = "forbid"
             /\ ~HasPlaceholder(built.structured_content)
             /\ ~HasPlaceholder(prompt.content)
             /\ prompt.content = built.structured_content
        ELSE prompt.image_instruction # "forbid"

\* C5 witness: the prompt forbids image references on a run whose images
\* all failed to upload.
C5_Witness ==
    /\ Serialized
    /\ Len(images) >= 2
    /\ \A k \in 1..Len(image_urls) : image_urls[k] = None
    /\ prompt.image_instruction = "forbid"

\* the text with every placeholder of an index of `done` replaced by the
\* URL of that index, in one pass from the left
RECURSIVE Scan(_, _, _)
Scan(s, urls, done) ==
    IF s = <<>> THEN <<>>
    ELSE IF \E i \in done : OccursAt(s, Placeholder(i), 1)
         THEN LET i == CHOOSE j \in done : OccursAt(s, Placeholder(j), 1)
              IN  urls[i + 1]
                  \o Scan(SubSeq(s, Len(Placeholder(i)) + 1, Len(s)),
                          urls, done)
         ELSE <<s[1]>> \o Scan(Tail(s), urls, done)

\* C6: whatever the order the indices are processed in, after the
\* substitution of a set of indices the text is the original with every
\* occurrence of exactly those indices' placeholders replaced by their URLs
\* and everything else unchanged; at the end no placeholder of an index
\* with a URL is left, and the result is the one of the program's order.
C6_SubstitutionRoundTrip ==
    /\ sub_result
          = Scan(sub_text, sub_urls, ValidIndices(sub_urls) \ sub_todo)
    /\ sub_todo = {} =>
          /\ sub_result = Substitute(sub_text, sub_urls)
          /\ \A i \in ValidIndices(sub_urls) :
                ~Contains(sub_result, Placeholder(i))

\* C6 witness: the placeholders of indices 1 and 10 were both in the text
\* and both were substituted.
C6_Witness ==
    /\ sub_todo = {}
    /\ ValidIndices(sub_urls) = {1, 10}
    /\ sub_text = Placeholder(10) \o Placeholder(1)
    /\ sub_result = Url(10) \o Url(1)

\* C7: the elements of every page are in non-decreasing order of the top
\* edge of their bounding box, text lines and images alike.
C7_ElementsOrderedByTop ==
    \A p \in 1..Len(pages_data) :
        \A i, j \in 1..Len(pages_data[p].elements) :
            i < j => TopEdge(pages_data[p].elements[i])
                        <= TopEdge(pages_data[p].elements[j])

\* C8: upload_to_gyazo is called once per image element, in the order of
\* images, which is the order the serializer walks the pages in; the k-th
\* call's result is entry k of image_urls, a URL or None; when the loop is
\* over image_urls has one entry per image element.
C8_OneUploadPerImage ==
    /\ pc \in {"upload", "summarize"} \/ InTrace("upload")
          => images = CollectImages(pages_data)
    /\ Len(upload_calls) <= Len(images)
    /\ \A k \in 1..Len(upload_calls) : upload_calls[k].image = images[k]
    /\ \A k \in 1..Len(upload_calls) :
          upload_calls[k].raised => (k = Len(upload_calls) /\ pc = "exit")
    /\ Len(image_urls)
          = Cardinality({k \in 1..Len(upload_calls) : ~upload_calls[k].raised})
    /\ \A k \in 1..Len(image_urls) :
          image_urls[k] = IF Truthy(upload_calls[k].returned)
                          THEN upload_calls[k].returned ELSE None
    /\ (pc = "summarize" \/ Serialized) =>
          /\ Len(image_urls) = Len(CollectImages(pages_data))
          /\ Len(upload_calls) = Len(image_urls)

\* C8 witness: the loop is over with a failed upload recorded before a
\* successful one.
C8_Witness ==
    /\ pc = "summarize"
    /\ Len(image_urls) >= 2
    /\ image_urls[1] = None
    /\ image_urls[2] # None

\* a credential is not in the environment
CredentialAbsent == gyazo_token = None \/ openai_api_key = None

\* a credential is not in the environment, or is empty
CredentialMissing == ~Truthy(gyazo_token) \/ ~Truthy(openai_api_key)

CredentialMessages ==
    {"GYAZO_TOKEN environment variable is required",
     "OPENAI_API_KEY environment variable is required"}

\* C9 as stated: with a credential missing the run ends with status 1, the
\* credential check is the first thing it does, and the failure it reports
\* is the missing credential whatever the state of the input path.
C9_CredentialCheckFirst ==
    (CredentialAbsent /\ pc = "exit") =>
        /\ exit_status = 1
        /\ trace = <<"getenv">>
        /\ error \in CredentialMessages

\* C9 amended: with a credential absent or empty the run ends with status 1 and
\* never opens the input file, uploads, requests a completion or writes the
\* output; the existence check of the input path comes before the
\* credential check, and the failure reported is the missing credential
\* when the input path exists and the missing input file when it does not.
C9_CredentialCheckBeforeWork ==
    CredentialMissing =>
        /\ pc \in {"main", "construct", "exit"}
        /\ OutputUntouched
        /\ pc = "exit" =>
              /\ exit_status = 1
              /\ IF input_exists
                 THEN /\ trace = <<"exists_input", "getenv">>
                      /\ error \in CredentialMessages
                 ELSE /\ trace = <<"exists_input">>
                      /\ error = "input file not found"

\* C9 witness: the input exists, only the LLM key is missing, and the run
\* has ended reporting it.
C9_Witness ==
    /\ pc = "exit"
    /\ input_exists
    /\ Truthy(gyazo_token)
    /\ openai_api_key = None
    /\ error = "OPENAI_API_KEY environment variable is required"

\* C10: a run that met a fatal failure ended with status 1 at the step that
\* failed, with the output file as it was; the output file is written only
\* after the completion request was answered, as the last step, by a run
\* that exits with status 0.
C10_FatalAbortsBeforeWrite ==
    /\ exit_status = 1 =>
          /\ pc = "exit"
          /\ OutputUntouched
          /\ ~InTrace("write_output")
          /\ error = "input file not found" => trace = <<"exists_input">>
          /\ error = "extraction error" =>
                /\ trace[Len(trace)] = "open_input"
                /\ image_urls = <<>>
          /\ error = "completion error" => trace[Len(trace)] = "completion"
    /\ InTrace("write_output") =>
          /\ pc = "exit"
          /\ exit_status = 0
          /\ trace[Len(trace)] = "write_output"
          /\ trace[Len(trace) - 1] = "completion"
          /\ output_file = markdown_content
    /\ ~OutputUntouched => InTrace("write_output")

\* C10 witness: the completion request failed after an upload, and the run
\* ended with status 1 and the earlier output file still in place.
C10_Witness ==
    /\ pc = "exit"
    /\ exit_status = 1
    /\ error = "completion error"
    /\ InTrace("upload")
    /\ output_file = OldOutput

====
